---- MODULE Spec2Model ----
(***************************************************************************)
(* Model of package sugar: Try (panic -> error), Must (error -> panic),    *)
(* Handle (error -> handler -> panic or value), Ptr and Zero.              *)
(*                                                                         *)
(* The functions are generic and stateless.  A caller picks an operation   *)
(* and its arguments; one action runs the whole call and records what the  *)
(* caller observes: the outcome (return or panic), how often the function  *)
(* argument was invoked, and with which errors the handler was invoked.    *)
(*                                                                         *)
(* Specifications: Spec (single calls of Try, Must, Handle), EffectSpec    *)
(* (a function argument that changes a captured variable), PtrSpec         *)
(* (variables, pointers and assignments), ZeroSpec (Zero next to a         *)
(* declaration), GoSpec (Try in several goroutines, step by step),         *)
(* MultiSpec (several functions built by Handle), ComposeSpec (Try around  *)
(* Must, Handle and Try) and PanicSpec (handlers that panic).              *)
(***************************************************************************)
EXTENDS Integers, Sequences, FiniteSets, TLC

VARIABLES
    op,       \* the last statement of the caller: "none", "Try", "Must", "Handle", "Handled",
              \* "Assign", "Declare", "Ptr", "WriteVar", "WritePtr", "WriteElem", "Zero", "Clear"
    in,       \* the arguments of the last call
    out,      \* what the caller of the last call observed
    fCalls,   \* how many function arguments were invoked during the last call
    hLog,     \* the errors the handler was invoked with during the last call
    handled,  \* the function most recently returned by Handle
    nextId,   \* identity of the next error value allocated
    counter,  \* a variable of the caller that a function argument captures
    mem,      \* storage: the cell at each allocated address
    locals,   \* addresses of the caller's own variables
    ptrs,     \* the pointers Ptr returned, in call order
    gs,       \* the goroutines running Try concurrently
    closures, \* all functions Handle returned, in construction order
    inner     \* what the function argument observed from the Try call in its own body

callVars == <<op, in, out, fCalls, hLog, handled, nextId>>
ptrVars == <<mem, locals, ptrs>>
vars == <<op, in, out, fCalls, hLog, handled, nextId, counter, mem, locals, ptrs, gs, closures, inner>>

----------------------------------------------------------------------------
(* Bounds *)

\* error identities fmt.Errorf may allocate
MaxAlloc == 2

\* largest value the captured counter is followed to
MaxCount == 2

\* storage cells the caller and Ptr may allocate
MaxCells == 4

\* goroutines that run Try at the same time
NumGo == 2

\* functions a caller builds with Handle and keeps side by side
MaxClosures == 2

----------------------------------------------------------------------------
(* Values of the type parameter T *)

Types == {"int", "string", "bool", "slice", "ptr"}

Val(t, i, s, b, isNil, elems) ==
    [type |-> t, i |-> i, s |-> s, b |-> b, isNil |-> isNil, elems |-> elems]

IntVals    == {Val("int", n, "", FALSE, FALSE, <<>>) : n \in {-1, 0, 42}}
StringVals == {Val("string", 0, s, FALSE, FALSE, <<>>) : s \in {"", "test"}}
BoolVals   == {Val("bool", 0, "", b, FALSE, <<>>) : b \in BOOLEAN}
SliceVals  == {Val("slice", 0, "", FALSE, TRUE, <<>>)}
                \cup {Val("slice", 0, "", FALSE, FALSE, e) : e \in {<<>>, <<1, 2>>}}
PtrVals    == {Val("ptr", 0, "", FALSE, TRUE, <<>>), Val("ptr", 1, "", FALSE, FALSE, <<>>)}

Values == IntVals \cup StringVals \cup BoolVals \cup SliceVals \cup PtrVals

\* placeholder in the value slot of an outcome that carries no value
NoVal == Val("none", 0, "", FALSE, FALSE, <<>>)

\* mutant: a slice or map comes back empty but allocated
Zero_Made(t) ==
    CASE t = "int"    -> Val("int", 0, "", FALSE, FALSE, <<>>)
      [] t = "string" -> Val("string", 0, "", FALSE, FALSE, <<>>)
      [] t = "bool"   -> Val("bool", 0, "", FALSE, FALSE, <<>>)
      [] t = "slice"  -> Val("slice", 0, "", FALSE, FALSE, <<>>)
      [] t = "ptr"    -> Val("ptr", 0, "", FALSE, TRUE, <<>>)
      [] t = "map"    -> Val("map", 0, "", FALSE, FALSE, <<>>)
      [] t = "struct" -> Val("struct", 0, "", FALSE, FALSE, <<>>)

\* Zero[T](): the value of `var v T`.  A struct value uses the fields i, s
\* and b as its own (Age int, Name string, Active bool).
Zero(t) ==
    CASE t = "int"    -> Val("int", 0, "", FALSE, FALSE, <<>>)
      [] t = "string" -> Val("string", 0, "", FALSE, FALSE, <<>>)
      [] t = "bool"   -> Val("bool", 0, "", FALSE, FALSE, <<>>)
      [] t = "slice"  -> Val("slice", 0, "", FALSE, TRUE, <<>>)
      [] t = "ptr"    -> Val("ptr", 0, "", FALSE, TRUE, <<>>)
      [] t = "map"    -> Val("map", 0, "", FALSE, TRUE, <<>>)
      [] t = "struct" -> Val("struct", 0, "", FALSE, FALSE, <<>>)

----------------------------------------------------------------------------
(* Error values: an identity, the text Error() returns, and the identity of
   the error Unwrap() returns (0 when the error wraps nothing) *)

NilErr == [id |-> 0, msg |-> "", wraps |-> 0]

\* errors.New(msg): identities 1..3 are the caller's errors; two of them
\* carry the same text
CallerErrs == {[id |-> 1, msg |-> "original error", wraps |-> 0],
               [id |-> 2, msg |-> "original error", wraps |-> 0],
               [id |-> 3, msg |-> "handler error", wraps |-> 0]}

\* identities below this one are taken by the caller's errors
FirstFreeId == Cardinality(CallerErrs) + 1

ErrArgs == CallerErrs \cup {NilErr}

----------------------------------------------------------------------------
(* Panic payloads: values of type any *)

Payload(k, s, i, e) == [kind |-> k, s |-> s, i |-> i, e |-> e]

NilPayload == Payload("nil", "", 0, NilErr)
StrPayload(s) == Payload("string", s, 0, NilErr)
IntPayload(i) == Payload("int", "", i, NilErr)
\* conversion of an error to any keeps the dynamic value
ErrPayload(e) == Payload("error", "", 0, e)
\* *runtime.PanicNilError
PanicNilError == Payload("PanicNilError", "", 0, NilErr)
\* runtime.Error raised by calling a nil func value
NilDeref == Payload("runtimeError", "invalid memory address or nil pointer dereference", 0, NilErr)

Payloads == {NilPayload}
              \cup {StrPayload(s) : s \in {"something went wrong", ""}}
              \cup {IntPayload(i) : i \in {123, 0, -7}}
              \cup {ErrPayload(e) : e \in CallerErrs}

----------------------------------------------------------------------------
(* Outcomes of a call, as its caller observes them *)

Outcome(k, v, e, p) == [kind |-> k, val |-> v, err |-> e, payload |-> p]

NoOutcome == Outcome("none", NoVal, NilErr, NilPayload)
Returned(v) == Outcome("return", v, NilErr, NilPayload)
ReturnedPair(v, e) == Outcome("return", v, e, NilPayload)
ReturnedErr(e) == Outcome("return", NoVal, e, NilPayload)
Panicked(p) == Outcome("panic", NoVal, NilErr, p)

\* panic(p): since Go 1.21 a nil argument is replaced by *runtime.PanicNilError
GoPanic(p) == Panicked(IF p = NilPayload THEN PanicNilError ELSE p)

\* recover() in a deferred function: the payload of the panic in flight, or nil
Recover(o) == IF o.kind = "panic" THEN o.payload ELSE NilPayload

----------------------------------------------------------------------------
(* fmt.Errorf("panic: %v", r) *)

Digit(d) ==
    CASE d = 0 -> "0" [] d = 1 -> "1" [] d = 2 -> "2" [] d = 3 -> "3" [] d = 4 -> "4"
      [] d = 5 -> "5" [] d = 6 -> "6" [] d = 7 -> "7" [] d = 8 -> "8" [] d = 9 -> "9"

RECURSIVE Itoa(_)
Itoa(n) ==
    IF n < 0 THEN "-" \o Itoa(-n)
    ELSE IF n < 10 THEN Digit(n)
    ELSE Itoa(n \div 10) \o Digit(n % 10)

\* the %v verb: a string prints as itself, an integer in decimal, an error
\* (the runtime's errors included) as its Error() text, nil as <nil>
Stringify(p) ==
    CASE p.kind = "string"        -> p.s
      [] p.kind = "int"           -> Itoa(p.i)
      [] p.kind = "error"         -> p.e.msg
      [] p.kind = "PanicNilError" -> "panic called with nil argument"
      [] p.kind = "runtimeError"  -> "runtime error: " \o p.s
      [] p.kind = "nil"           -> "<nil>"

\* mutant: the format string lacks the "panic: " prefix
Errorf_Bare(r, id) == [id |-> id, msg |-> Stringify(r), wraps |-> 0]

\* the error fmt.Errorf allocates, with identity id
\* mutant: the format verb is %w, so an error payload is wrapped
Errorf_Wrap(r, id) ==
    [id |-> id, msg |-> "panic: " \o Stringify(r),
     wraps |-> IF r.kind = "error" THEN r.e.id ELSE 0]

Errorf(r, id) == [id |-> id, msg |-> "panic: " \o Stringify(r), wraps |-> 0]

----------------------------------------------------------------------------
(* Effects a call has besides its outcome *)

Effects(n, log, id) ==
    [fCalls |-> n, hLog |-> log, nextId |-> id, counter |-> counter, inner |-> NoOutcome]

Result(o, st) == [o |-> o, st |-> st]

----------------------------------------------------------------------------
(* Handlers: func(error) error *)

Handler(k, e) == [kind |-> k, e |-> e]

NoHandler       == Handler("none", NilErr)
\* var h Handler[T]
NilHandler      == Handler("nil", NilErr)
\* func(err error) error { return err }
IdentityHandler == Handler("identity", NilErr)
\* func(err error) error { return nil }
IgnoreHandler   == Handler("ignore", NilErr)
\* func(err error) error { return e2 }
ConstHandler(e) == Handler("const", e)
\* func(err error) error { if err.Error() == "original error" { return e2 }; return err }
TransformHandler(e) == Handler("transform", e)
\* func(err error) error { if err.Error() == "handler error" { return nil }; return err }
SelectiveHandler == Handler("selective", NilErr)
\* func(err error) error { panic(e2) }
PanicHandler(e) == Handler("panics", e)

Handlers == {NilHandler, IdentityHandler, IgnoreHandler, SelectiveHandler}
              \cup {ConstHandler(e) : e \in CallerErrs}
              \cup {TransformHandler(e) : e \in CallerErrs}

\* the error a non-nil handler returns for err
HandlerReturn(h, err) ==
    CASE h.kind = "identity"  -> err
      [] h.kind = "ignore"    -> NilErr
      [] h.kind = "const"     -> h.e
      [] h.kind = "transform" -> IF err.msg = "original error" THEN h.e ELSE err
      [] h.kind = "selective" -> IF err.msg = "handler error" THEN NilErr ELSE err

\* h(err): calling a nil func value panics before anything of h runs
CallHandler(h, err, st) ==
    IF h.kind = "nil" THEN Result(GoPanic(NilDeref), st)
    ELSE IF h.kind = "panics"
    THEN Result(GoPanic(ErrPayload(h.e)), [st EXCEPT !.hLog = Append(@, err)])
    ELSE Result(ReturnedErr(HandlerReturn(h, err)),
                [st EXCEPT !.hLog = Append(@, err)])

----------------------------------------------------------------------------
(* The function argument of Try: func() T *)

\* a func literal: what its body does, and what it mentions: a value v, a
\* panic payload p, an error err and a handler h
FuncOf(body, t, v, p, err, h) ==
    [body |-> body, type |-> t, val |-> v, payload |-> p, err |-> err, h |-> h]

Func(body, t, v, p) == FuncOf(body, t, v, p, NilErr, NoHandler)

NoFunc == Func("none", "none", NoVal, NilPayload)

\* func() T { return v }  and  func() T { panic(p) }
Funcs == {Func("return", v.type, v, NilPayload) : v \in Values}
           \cup {Func("panic", t, NoVal, p) : t \in Types, p \in Payloads}

\* func() T { counter++; if counter > 0 { panic(p) }; return v }
CounterFuncs == {Func("incPanic", "string", Val("string", 0, "success", FALSE, FALSE, <<>>),
                      StrPayload("panic after increment")),
                 Func("incPanic", "int", Val("int", 42, "", FALSE, FALSE, <<>>),
                      ErrPayload([id |-> 1, msg |-> "original error", wraps |-> 0]))}

\* var f func() T
NilFunc(t) == Func("nil", t, NoVal, NilPayload)

\* func() T { return Must(v, err) }
MustFunc(v, err) == FuncOf("must", v.type, v, NilPayload, err, NoHandler)

\* func() T { return handler(v, err) }, handler being Handle(h)
HandledFunc(v, err, h) == FuncOf("handled", v.type, v, NilPayload, err, h)

\* func() T { Try(func() T { panic(p) }); return v }
TryPanicFunc(v, p) == Func("tryPanic", v.type, v, p)

\* func() T { return Must(Try(func() T { return Must(v, err) })) }
MustTryFunc(v, err) == FuncOf("mustTry", v.type, v, NilPayload, err, NoHandler)

RECURSIVE Try(_, _)
RECURSIVE Must(_, _)
RECURSIVE Handle(_)
RECURSIVE Handled(_, _, _, _)

\* f(): one invocation of the function argument.  Calling a nil func value
\* panics in the caller's frame; nothing of f runs.
CallFunc(f, st) ==
    LET st1 == [st EXCEPT !.fCalls = @ + 1]
        st2 == [st1 EXCEPT !.counter = @ + 1]
    IN  CASE f.body = "nil"      -> Result(GoPanic(NilDeref), st)
          [] f.body = "return"   -> Result(Returned(f.val), st1)
          [] f.body = "panic"    -> Result(GoPanic(f.payload), st1)
          [] f.body = "incPanic" -> IF st2.counter > 0
                                    THEN Result(GoPanic(f.payload), st2)
                                    ELSE Result(Returned(f.val), st2)
          [] f.body = "must"     -> Result(Must(f.val, f.err), st1)
          [] f.body = "handled"  -> Handled(Handle(f.h), f.val, f.err, st1)
          [] f.body = "tryPanic" ->
                LET c == Try(Func("panic", f.type, NoVal, f.payload), st1)
                IN  Result(Returned(f.val), [c.st EXCEPT !.inner = c.o])
          [] f.body = "mustTry"  ->
                LET c == Try(MustFunc(f.val, f.err), st1)
                IN  Result(Must(c.o.val, c.o.err), [c.st EXCEPT !.inner = c.o])

----------------------------------------------------------------------------
(* Try *)

\* mutant: the deferred function does not call recover
Try_NoRecover(f, st) == CallFunc(f, st)

\* mutant: f is evaluated once for the value and once more for the result
Try_Twice(f, st) ==
    LET c0 == CallFunc(f, st)
        c == CallFunc(f, c0.st)
        r == Recover(c.o)
    IN  IF r # NilPayload
        THEN Result(ReturnedPair(Zero(f.type), Errorf(r, c.st.nextId)),
                    [c.st EXCEPT !.nextId = @ + 1])
        ELSE IF c.o.kind = "return" THEN Result(ReturnedPair(c.o.val, NilErr), c.st)
        ELSE Result(ReturnedPair(Zero(f.type), NilErr), c.st)

\* mutant: a recovered payload that is already an error is returned as it
\* is, without being formatted
Try_PassError(f, st) ==
    LET c == CallFunc(f, st)
        r == Recover(c.o)
    IN  IF r # NilPayload
        THEN IF r.kind = "error"
             THEN Result(ReturnedPair(Zero(f.type), r.e), c.st)
             ELSE IF r.kind \in {"PanicNilError", "runtimeError"}
             THEN Result(ReturnedPair(Zero(f.type), [id |-> c.st.nextId, msg |-> Stringify(r), wraps |-> 0]),
                         [c.st EXCEPT !.nextId = @ + 1])
             ELSE Result(ReturnedPair(Zero(f.type), Errorf(r, c.st.nextId)),
                         [c.st EXCEPT !.nextId = @ + 1])
        ELSE IF c.o.kind = "return" THEN Result(ReturnedPair(c.o.val, NilErr), c.st)
        ELSE Result(ReturnedPair(Zero(f.type), NilErr), c.st)

\* mutant: the recovered panic is remembered across calls, so a call made
\* after a recovered panic still reports an error
Try_Sticky(f, st) ==
    LET c == CallFunc(f, st)
        r == Recover(c.o)
    IN  IF r # NilPayload \/ st.nextId > FirstFreeId
        THEN Result(ReturnedPair(Zero(f.type),
                                 Errorf(IF r # NilPayload THEN r ELSE PanicNilError, c.st.nextId)),
                    [c.st EXCEPT !.nextId = @ + 1])
        ELSE IF c.o.kind = "return" THEN Result(ReturnedPair(c.o.val, NilErr), c.st)
        ELSE Result(ReturnedPair(Zero(f.type), NilErr), c.st)

\* mutant: what f changed is put back when its panic is recovered
Try_Rollback(f, st) ==
    LET c == CallFunc(f, st)
        r == Recover(c.o)
    IN  IF r # NilPayload
        THEN Result(ReturnedPair(Zero(f.type), Errorf(r, c.st.nextId)),
                    [c.st EXCEPT !.nextId = @ + 1, !.counter = st.counter])
        ELSE IF c.o.kind = "return" THEN Result(ReturnedPair(c.o.val, NilErr), c.st)
        ELSE Result(ReturnedPair(Zero(f.type), NilErr), c.st)

\* mutant: f is called before the recover is deferred when it is nil
Try_GuardNil(f, st) ==
    LET c == CallFunc(f, st)
        r == Recover(c.o)
    IN  IF f.body = "nil" THEN c
        ELSE IF r # NilPayload
        THEN Result(ReturnedPair(Zero(f.type), Errorf(r, c.st.nextId)),
                    [c.st EXCEPT !.nextId = @ + 1])
        ELSE IF c.o.kind = "return" THEN Result(ReturnedPair(c.o.val, NilErr), c.st)
        ELSE Result(ReturnedPair(Zero(f.type), NilErr), c.st)

\* mutant: after recording the error the deferred function panics again
\* with it
Try_Repanic(f, st) ==
    LET c == CallFunc(f, st)
        r == Recover(c.o)
    IN  IF r # NilPayload
        THEN Result(GoPanic(ErrPayload(Errorf(r, c.st.nextId))),
                    [c.st EXCEPT !.nextId = @ + 1])
        ELSE IF c.o.kind = "return" THEN Result(ReturnedPair(c.o.val, NilErr), c.st)
        ELSE Result(ReturnedPair(Zero(f.type), NilErr), c.st)

\* mutant: an error payload whose text already starts with "panic: " is not
\* prefixed again
Try_Once(f, st) ==
    LET c == CallFunc(f, st)
        r == Recover(c.o)
        prefixed == r.kind = "error" /\ Len(r.e.msg) >= 7 /\ SubSeq(r.e.msg, 1, 7) = "panic: "
    IN  IF r # NilPayload
        THEN Result(ReturnedPair(Zero(f.type),
                                 IF prefixed
                                 THEN [id |-> c.st.nextId, msg |-> r.e.msg, wraps |-> 0]
                                 ELSE Errorf(r, c.st.nextId)),
                    [c.st EXCEPT !.nextId = @ + 1])
        ELSE IF c.o.kind = "return" THEN Result(ReturnedPair(c.o.val, NilErr), c.st)
        ELSE Result(ReturnedPair(Zero(f.type), NilErr), c.st)

\* Try(f): `return f(), nil` under a deferred recover.  The named results
\* start as (zero value, nil); a recovered non-nil payload overwrites them.
Try(f, st) ==
    LET c == CallFunc(f, st)
        r == Recover(c.o)
    IN  IF r # NilPayload
        THEN Result(ReturnedPair(Zero(f.type), Errorf(r, c.st.nextId)),
                    [c.st EXCEPT !.nextId = @ + 1])
        ELSE IF c.o.kind = "return" THEN Result(ReturnedPair(c.o.val, NilErr), c.st)
        ELSE Result(ReturnedPair(Zero(f.type), NilErr), c.st)

----------------------------------------------------------------------------
(* Must *)

\* mutant: the condition is inverted
Must_Inverted(v, err) ==
    IF err = NilErr THEN GoPanic(ErrPayload(err)) ELSE Returned(v)

\* mutant: panics with the error's text instead of the error
Must_Text(v, err) ==
    IF err # NilErr THEN GoPanic(StrPayload(err.msg)) ELSE Returned(v)

\* mutant: the error is dropped and v returned
Must_Silent(v, err) == Returned(v)

Must(v, err) ==
    IF err # NilErr THEN GoPanic(ErrPayload(err)) ELSE Returned(v)

----------------------------------------------------------------------------
(* Handle *)

Closure(bound, h) == [bound |-> bound, h |-> h]

NoClosure == Closure(FALSE, NoHandler)

\* Handle(h): the returned func literal captures h
Handle(h) == Closure(TRUE, h)

\* mutant: the handler is consulted before err is tested
Handled_Eager(g, v, err, st) ==
    LET c == CallHandler(g.h, err, st)
    IN  IF c.o.kind = "panic" THEN Result(c.o, c.st)
        ELSE IF err # NilErr /\ c.o.err # NilErr
             THEN Result(GoPanic(ErrPayload(c.o.err)), c.st)
        ELSE Result(Returned(v), c.st)

\* mutant: the handler's result is kept in a new variable and the
\* original err is what gets panicked with
Handled_Shadow(g, v, err, st) ==
    IF err # NilErr
    THEN LET c == CallHandler(g.h, err, st)
         IN  IF c.o.kind = "panic" THEN Result(c.o, c.st)
             ELSE IF c.o.err # NilErr
                  THEN Result(GoPanic(ErrPayload(err)), c.st)
             ELSE Result(Returned(v), c.st)
    ELSE Result(Returned(v), st)

\* mutant: the handler's verdict is ignored, any error panics
Handled_Strict(g, v, err, st) ==
    IF err # NilErr
    THEN LET c == CallHandler(g.h, err, st)
         IN  IF c.o.kind = "panic" THEN Result(c.o, c.st)
             ELSE Result(GoPanic(ErrPayload(err)), c.st)
    ELSE Result(Returned(v), st)

\* mutant: a handled error yields the zero value instead of v
Handled_Zero(g, v, err, st) ==
    IF err # NilErr
    THEN LET c == CallHandler(g.h, err, st)
         IN  IF c.o.kind = "panic" THEN Result(c.o, c.st)
             ELSE IF c.o.err # NilErr
                  THEN Result(GoPanic(ErrPayload(c.o.err)), c.st)
             ELSE Result(Returned(Zero(v.type)), c.st)
    ELSE Result(Returned(v), st)

\* mutant: the handler runs but its returned error is dropped
Handled_Swallow(g, v, err, st) ==
    IF err # NilErr
    THEN LET c == CallHandler(g.h, err, st)
         IN  IF c.o.kind = "panic" THEN Result(c.o, c.st)
             ELSE Result(Returned(v), c.st)
    ELSE Result(Returned(v), st)

\* mutant: an unset handler is skipped, the error counts as resolved
Handled_NilGuard(g, v, err, st) ==
    IF err # NilErr /\ g.h.kind # "nil"
    THEN LET c == CallHandler(g.h, err, st)
         IN  IF c.o.kind = "panic" THEN Result(c.o, c.st)
             ELSE IF c.o.err # NilErr
                  THEN Result(GoPanic(ErrPayload(c.o.err)), c.st)
             ELSE Result(Returned(v), c.st)
    ELSE Result(Returned(v), st)

\* mutant: the returned function rejects an unset handler on every call,
\* before err is looked at
Handled_NilCheck(g, v, err, st) ==
    IF g.h.kind = "nil" THEN Result(GoPanic(NilDeref), st)
    ELSE IF err # NilErr
    THEN LET c == CallHandler(g.h, err, st)
         IN  IF c.o.kind = "panic" THEN Result(c.o, c.st)
             ELSE IF c.o.err # NilErr
                  THEN Result(GoPanic(ErrPayload(c.o.err)), c.st)
             ELSE Result(Returned(v), c.st)
    ELSE Result(Returned(v), st)

\* mutant: the returned function recovers a panic of the handler and
\* returns v
Handled_Recover(g, v, err, st) ==
    IF err # NilErr
    THEN LET c == CallHandler(g.h, err, st)
         IN  IF c.o.kind = "panic" THEN Result(Returned(v), c.st)
             ELSE IF c.o.err # NilErr
                  THEN Result(GoPanic(ErrPayload(c.o.err)), c.st)
             ELSE Result(Returned(v), c.st)
    ELSE Result(Returned(v), st)

\* mutant: the handler lives in one package-level variable that every
\* construction overwrites, so a call consults the handler set last
Handled_Latest(g, v, err, st) ==
    IF err # NilErr
    THEN LET c == CallHandler(handled.h, err, st)
         IN  IF c.o.kind = "panic" THEN Result(c.o, c.st)
             ELSE IF c.o.err # NilErr
                  THEN Result(GoPanic(ErrPayload(c.o.err)), c.st)
             ELSE Result(Returned(v), c.st)
    ELSE Result(Returned(v), st)

\* the function returned by Handle(h), called with (v, err)
Handled(g, v, err, st) ==
    IF err # NilErr
    THEN LET c == CallHandler(g.h, err, st)
         IN  IF c.o.kind = "panic" THEN Result(c.o, c.st)
             ELSE IF c.o.err # NilErr
                  THEN Result(GoPanic(ErrPayload(c.o.err)), c.st)
             ELSE Result(Returned(v), c.st)
    ELSE Result(Returned(v), st)

----------------------------------------------------------------------------
(* The caller *)

Args(v, err, f, h) == [v |-> v, err |-> err, f |-> f, h |-> h]

NoArgs == Args(NoVal, NilErr, NoFunc, NoHandler)

\* effects of a call start empty; allocation continues from nextId
Fresh == Effects(0, <<>>, nextId)

IdLimit == FirstFreeId + MaxAlloc

Init ==
    /\ op = "none"
    /\ in = NoArgs
    /\ out = NoOutcome
    /\ fCalls = 0
    /\ hLog = <<>>
    /\ handled = NoClosure
    /\ nextId = FirstFreeId
    /\ counter = 0
    /\ mem = <<>>
    /\ locals = {}
    /\ ptrs = <<>>
    /\ gs = <<>>
    /\ closures = <<>>
    /\ inner = NoOutcome

\* result, err := Try(f), for f among the functions F
TryCallOf(F) ==
    \E f \in F :
        LET r == Try(f, Fresh)
        IN  /\ r.st.nextId <= IdLimit
            /\ r.st.counter <= MaxCount
            /\ op' = "Try"
            /\ in' = Args(NoVal, NilErr, f, NoHandler)
            /\ out' = r.o
            /\ fCalls' = r.st.fCalls
            /\ hLog' = r.st.hLog
            /\ nextId' = r.st.nextId
            /\ counter' = r.st.counter
            /\ inner' = r.st.inner
            /\ UNCHANGED <<handled, ptrVars, gs, closures>>

\* result, err := Try(f)
TryCall == TryCallOf(Funcs)

\* result := Must(v, err)
MustCall ==
    \E v \in Values, err \in ErrArgs :
        /\ op' = "Must"
        /\ in' = Args(v, err, NoFunc, NoHandler)
        /\ out' = Must(v, err)
        /\ fCalls' = 0
        /\ hLog' = <<>>
        /\ UNCHANGED <<handled, nextId, counter, ptrVars, gs, closures, inner>>

\* handler := Handle[T](h)
HandleCallOf(HS) ==
    \E h \in HS :
        /\ op' = "Handle"
        /\ in' = Args(NoVal, NilErr, NoFunc, h)
        /\ out' = Returned(NoVal)
        /\ handled' = Handle(h)
        /\ fCalls' = 0
        /\ hLog' = <<>>
        /\ UNCHANGED <<nextId, counter, ptrVars, gs, closures, inner>>

\* handler := Handle[T](h)
HandleCall == HandleCallOf(Handlers)

\* result := handler(v, err)
HandledCall ==
    /\ handled.bound
    /\ \E v \in Values, err \in ErrArgs :
        LET r == Handled(handled, v, err, Fresh)
        IN  /\ op' = "Handled"
            /\ in' = Args(v, err, NoFunc, handled.h)
            /\ out' = r.o
            /\ fCalls' = r.st.fCalls
            /\ hLog' = r.st.hLog
            /\ nextId' = r.st.nextId
            /\ UNCHANGED <<handled, counter, ptrVars, gs, closures, inner>>

Next == TryCall \/ MustCall \/ HandleCall \/ HandledCall

Spec == Init /\ [][Next]_vars

----------------------------------------------------------------------------
(* A caller whose function argument captures one of its variables *)

CounterStarts == {-2, 0}

\* counter := c
SetCounter ==
    \E c \in CounterStarts :
        /\ counter' = c
        /\ op' = "Assign"
        /\ in' = NoArgs
        /\ out' = NoOutcome
        /\ fCalls' = 0
        /\ hLog' = <<>>
        /\ UNCHANGED <<handled, nextId, ptrVars, gs, closures, inner>>

\* result, err := Try(func() T { counter++; ... })
TryCounterCall == TryCallOf(CounterFuncs)

EffectNext == SetCounter \/ TryCounterCall \/ TryCall

EffectSpec == Init /\ [][EffectNext]_vars

----------------------------------------------------------------------------
(* Storage: variables and what pointers point to *)

\* An address is an index into mem.  The cell of a variable holds its value;
\* a pointer value carries the address it points to in field i; a non-nil
\* slice value carries the address of its backing array in field i, and the
\* array cell holds the elements; a non-nil map value carries the address of
\* its table, whose cell holds the entries (the value stored at each key).
PtrTo(a) == Val("ptr", a, "", FALSE, FALSE, <<>>)
SliceOf(a) == Val("slice", a, "", FALSE, FALSE, <<>>)
ArrayCell(e) == Val("array", 0, "", FALSE, FALSE, e)
MapOf(a) == Val("map", a, "", FALSE, FALSE, <<>>)
TableCell(e) == Val("table", 0, "", FALSE, FALSE, e)

\* types whose values refer to elements stored elsewhere
RefTypes == {"slice", "map"}

\* values a caller's variable is declared with: 0, 42, a nil slice, a nil pointer
ScalarArgs == {Val("int", n, "", FALSE, FALSE, <<>>) : n \in {0, 42}}
                \cup {Zero("slice"), Zero("ptr")}

\* the slice headers alive in storage m
SlicesIn(m) == {SliceOf(a) : a \in {b \in 1..Len(m) : m[b].type = "array"}}

\* the map values alive in storage m
MapsIn(m) == {MapOf(a) : a \in {b \in 1..Len(m) : m[b].type = "table"}}

\* values of the type of w that an assignment may store in place of w
Assignable(w, m) ==
    CASE w.type = "int"   -> {Val("int", n, "", FALSE, FALSE, <<>>) : n \in {0, 42, 100}}
      [] w.type = "slice" -> {Zero("slice")} \cup SlicesIn(m)
      [] w.type = "map"   -> {Zero("map")} \cup MapsIn(m)
      [] OTHER            -> {}

\* what a variable or pointer target holds, elements of a slice or map included
Contents(m, a) ==
    [val |-> m[a],
     elems |-> IF m[a].type \in RefTypes /\ ~m[a].isNil THEN m[m[a].i].elems ELSE <<>>]

PtrResult(p, m) == [p |-> p, mem |-> m]

\* mutant: the address of the caller's variable is returned (as &x would)
Ptr_Alias(a, m) == PtrResult(PtrTo(a), m)

\* mutant: the value is kept in one shared cell that every call returns
Ptr_Static(a, m) ==
    IF ptrs # <<>>
    THEN PtrResult(PtrTo(ptrs[1]), [m EXCEPT ![ptrs[1]] = m[a]])
    ELSE PtrResult(PtrTo(Len(m) + 1), Append(m, m[a]))

\* mutant: the pointer is to a new zero-valued cell (as new(T) would give)
Ptr_New(a, m) == PtrResult(PtrTo(Len(m) + 1), Append(m, Zero(m[a].type)))

\* mutant: the elements of a slice or map are cloned along with the value
Ptr_Deep(a, m) ==
    IF m[a].type \in RefTypes /\ ~m[a].isNil
    THEN PtrResult(PtrTo(Len(m) + 2),
                   m \o <<m[m[a].i], [m[a] EXCEPT !.i = Len(m) + 1]>>)
    ELSE PtrResult(PtrTo(Len(m) + 1), Append(m, m[a]))

\* Ptr(x) with x the variable at address a: the parameter v is a new
\* variable initialised with a copy of x, and &v is returned
Ptr(a, m) == PtrResult(PtrTo(Len(m) + 1), Append(m, m[a]))

\* x := v
Declare ==
    \E v \in ScalarArgs :
        /\ Len(mem) < MaxCells
        /\ mem' = Append(mem, v)
        /\ locals' = locals \cup {Len(mem) + 1}
        /\ op' = "Declare"
        /\ in' = NoArgs
        /\ out' = NoOutcome
        /\ UNCHANGED <<fCalls, hLog, handled, nextId, counter, ptrs, gs, closures, inner>>

\* x := []int{1, 2}
DeclareSlice ==
    /\ Len(mem) + 2 <= MaxCells
    /\ mem' = mem \o <<ArrayCell(<<1, 2>>), SliceOf(Len(mem) + 1)>>
    /\ locals' = locals \cup {Len(mem) + 2}
    /\ op' = "Declare"
    /\ in' = NoArgs
    /\ out' = NoOutcome
    /\ UNCHANGED <<fCalls, hLog, handled, nextId, counter, ptrs, gs, closures, inner>>

\* x := map[int]int{0: 1, 1: 2}
DeclareMap ==
    /\ Len(mem) + 2 <= MaxCells
    /\ mem' = mem \o <<TableCell(<<1, 2>>), MapOf(Len(mem) + 1)>>
    /\ locals' = locals \cup {Len(mem) + 2}
    /\ op' = "Declare"
    /\ in' = NoArgs
    /\ out' = NoOutcome
    /\ UNCHANGED <<fCalls, hLog, handled, nextId, counter, ptrs, gs, closures, inner>>

\* p := Ptr(x)
PtrCall ==
    \E a \in locals :
        LET r == Ptr(a, mem)
        IN  /\ Len(r.mem) <= MaxCells
            /\ mem' = r.mem
            /\ ptrs' = Append(ptrs, r.p.i)
            /\ op' = "Ptr"
            /\ in' = Args(mem[a], NilErr, NoFunc, NoHandler)
            /\ out' = Returned(r.p)
            /\ UNCHANGED <<fCalls, hLog, handled, nextId, counter, locals, gs, closures, inner>>

\* x = w
WriteVar ==
    \E a \in locals :
        \E w \in Assignable(mem[a], mem) \ {mem[a]} :
            /\ mem' = [mem EXCEPT ![a] = w]
            /\ op' = "WriteVar"
            /\ in' = Args(PtrTo(a), NilErr, NoFunc, NoHandler)
            /\ out' = NoOutcome
            /\ UNCHANGED <<fCalls, hLog, handled, nextId, counter, locals, ptrs, gs, closures, inner>>

\* *p = w
WritePtr ==
    \E k \in 1..Len(ptrs) :
        \E w \in Assignable(mem[ptrs[k]], mem) \ {mem[ptrs[k]]} :
            /\ mem' = [mem EXCEPT ![ptrs[k]] = w]
            /\ op' = "WritePtr"
            /\ in' = Args(PtrTo(ptrs[k]), NilErr, NoFunc, NoHandler)
            /\ out' = NoOutcome
            /\ UNCHANGED <<fCalls, hLog, handled, nextId, counter, locals, ptrs, gs, closures, inner>>

\* x[0] = 999 or (*p)[0] = 999, for a non-nil slice or map
WriteElem ==
    \E a \in locals \cup {ptrs[k] : k \in 1..Len(ptrs)} :
        /\ mem[a].type \in RefTypes
        /\ ~mem[a].isNil
        /\ mem[mem[a].i].elems[1] # 999
        /\ mem' = [mem EXCEPT ![mem[a].i].elems[1] = 999]
        /\ op' = "WriteElem"
        /\ in' = Args(PtrTo(a), NilErr, NoFunc, NoHandler)
        /\ out' = NoOutcome
        /\ UNCHANGED <<fCalls, hLog, handled, nextId, counter, locals, ptrs, gs, closures, inner>>

PtrNext == Declare \/ DeclareSlice \/ DeclareMap \/ PtrCall \/ WriteVar \/ WritePtr \/ WriteElem

PtrSpec == Init /\ [][PtrNext]_vars

----------------------------------------------------------------------------
(* Zero next to a declaration *)

ZeroTypes == Types \cup {"map", "struct"}

\* types whose variables start as nil
NilableTypes == {"slice", "ptr", "map"}

\* var v T: the language clears the storage of v; for a nilable type that
\* is nil
VarDecl(t) == Val(t, 0, "", FALSE, t \in NilableTypes, <<>>)

\* var declared T; zero := Zero[T]()
ZeroCall ==
    \E t \in ZeroTypes :
        /\ Len(mem) < MaxCells
        /\ mem' = Append(mem, VarDecl(t))
        /\ locals' = locals \cup {Len(mem) + 1}
        /\ op' = "Zero"
        /\ in' = NoArgs
        /\ out' = Returned(Zero(t))
        /\ UNCHANGED <<fCalls, hLog, handled, nextId, counter, ptrs, gs, closures, inner>>

\* value = Zero[T](), for a variable that was assigned since its declaration
ClearVar ==
    \E a \in locals :
        /\ mem[a] # Zero(mem[a].type)
        /\ mem' = [mem EXCEPT ![a] = Zero(mem[a].type)]
        /\ op' = "Clear"
        /\ in' = Args(PtrTo(a), NilErr, NoFunc, NoHandler)
        /\ out' = NoOutcome
        /\ UNCHANGED <<fCalls, hLog, handled, nextId, counter, locals, ptrs, gs, closures, inner>>

ZeroNext == ZeroCall \/ WriteVar \/ ClearVar

ZeroSpec == Init /\ [][ZeroNext]_vars

----------------------------------------------------------------------------
(* Try in several goroutines.  Each goroutine runs one call of Try in three
   steps: entry (named results cleared, deferred function registered), the
   evaluation of f(), and the deferred function.  A panic in flight belongs
   to the goroutine that raised it. *)

Goroutine(f, pc, panicking, payload, retval, err, overlap) ==
    [f |-> f, pc |-> pc, panicking |-> panicking, payload |-> payload,
     retval |-> retval, err |-> err, overlap |-> overlap]

\* func() T bodies the goroutines run
GoFuncs == {Func("return", "int", Val("int", 42, "", FALSE, FALSE, <<>>), NilPayload),
            Func("return", "string", Val("string", 0, "test", FALSE, FALSE, <<>>), NilPayload),
            Func("panic", "int", NoVal, StrPayload("something went wrong")),
            Func("panic", "slice", NoVal, NilPayload),
            Func("panic", "string", NoVal, ErrPayload([id |-> 1, msg |-> "original error", wraps |-> 0]))}

\* mutant: recover() hands out whichever panic is in flight in the process
GoRecover_Shared(g, G) ==
    IF \E k \in 1..Len(G) : G[k].panicking
    THEN G[CHOOSE k \in 1..Len(G) : G[k].panicking].payload
    ELSE NilPayload

\* recover() called by goroutine g: the payload of g's own panic, or nil
GoRecover(g, G) == IF G[g].panicking THEN G[g].payload ELSE NilPayload

\* go func() { result, err := Try(f) }(): Try is entered
GoEnter ==
    \E f \in GoFuncs :
        /\ Len(gs) < NumGo
        /\ gs' = Append(gs, Goroutine(f, "entered", FALSE, NilPayload, Zero(f.type), NilErr, FALSE))
        /\ UNCHANGED <<callVars, counter, ptrVars, closures, inner>>

\* return f(), nil: f returns and the results are set, or f panics
GoCallF ==
    \E g \in 1..Len(gs) :
        /\ gs[g].pc = "entered"
        /\ LET c == CallFunc(gs[g].f, Fresh)
           IN  gs' = [gs EXCEPT ![g] =
                        IF c.o.kind = "panic"
                        THEN [@ EXCEPT !.pc = "deferred", !.panicking = TRUE,
                                       !.payload = c.o.payload]
                        ELSE [@ EXCEPT !.pc = "deferred", !.retval = c.o.val,
                                       !.err = NilErr]]
        /\ UNCHANGED <<callVars, counter, ptrVars, closures, inner>>

\* the deferred function: if r := recover(); r != nil { ... }
GoDeferred ==
    \E g \in 1..Len(gs) :
        /\ gs[g].pc = "deferred"
        /\ LET r == GoRecover(g, gs)
               others == \E k \in 1..Len(gs) : k # g /\ gs[k].panicking
           IN  IF r # NilPayload
               THEN /\ nextId < IdLimit
                    /\ gs' = [gs EXCEPT ![g] =
                                [@ EXCEPT !.pc = "done", !.panicking = FALSE,
                                          !.retval = Zero(gs[g].f.type),
                                          !.err = Errorf(r, nextId),
                                          !.overlap = others]]
                    /\ nextId' = nextId + 1
               ELSE /\ gs' = [gs EXCEPT ![g] =
                                [@ EXCEPT !.pc = IF gs[g].panicking THEN "crashed" ELSE "done",
                                          !.overlap = others]]
                    /\ UNCHANGED nextId
        /\ UNCHANGED <<op, in, out, fCalls, hLog, handled, counter, ptrVars, closures, inner>>

GoNext == GoEnter \/ GoCallF \/ GoDeferred

GoSpec == Init /\ [][GoNext]_vars

----------------------------------------------------------------------------
(* A caller that builds several functions with Handle and calls any of them *)

\* handler1 := Handle[int](func(err error) error { return nil })
\* handler2 := Handle[string](func(err error) error { return errors.New("always fail") })
\* and the strict and the unset handler
MultiHandlers == {IgnoreHandler, IdentityHandler, NilHandler,
                  ConstHandler([id |-> 3, msg |-> "handler error", wraps |-> 0])}

MultiValues == {Val("int", 100, "", FALSE, FALSE, <<>>),
                Val("string", 0, "test", FALSE, FALSE, <<>>)}

\* handlerN := Handle[T](h)
Construct ==
    \E h \in MultiHandlers :
        /\ Len(closures) < MaxClosures
        /\ closures' = Append(closures, Handle(h))
        /\ handled' = Handle(h)
        /\ op' = "Handle"
        /\ in' = Args(NoVal, NilErr, NoFunc, h)
        /\ out' = Returned(NoVal)
        /\ fCalls' = 0
        /\ hLog' = <<>>
        /\ UNCHANGED <<nextId, counter, ptrVars, gs, inner>>

\* result := handlerK(v, err)
CallClosure ==
    \E k \in 1..Len(closures), v \in MultiValues, err \in ErrArgs :
        LET r == Handled(closures[k], v, err, Fresh)
        IN  /\ op' = "Handled"
            /\ in' = Args(v, err, NoFunc, closures[k].h)
            /\ out' = r.o
            /\ fCalls' = r.st.fCalls
            /\ hLog' = r.st.hLog
            /\ nextId' = r.st.nextId
            /\ UNCHANGED <<handled, counter, ptrVars, gs, closures, inner>>

MultiNext == Construct \/ CallClosure

MultiSpec == Init /\ [][MultiNext]_vars

----------------------------------------------------------------------------
(* Compositions: Try around Must, around a function built by Handle, around
   another Try, Try of a nil function, and a handler that panics *)

ComposeValues == {Val("int", 0, "", FALSE, FALSE, <<>>),
                  Val("int", 42, "", FALSE, FALSE, <<>>),
                  Val("string", 0, "test", FALSE, FALSE, <<>>)}

PanicHandlers == {PanicHandler(e) : e \in CallerErrs}

ComposeFuncs ==
    {NilFunc(t) : t \in Types}
      \cup {MustFunc(v, err) : v \in Values, err \in ErrArgs}
      \cup {HandledFunc(v, err, h) :
                v \in ComposeValues, err \in ErrArgs, h \in Handlers \cup PanicHandlers}
      \cup {TryPanicFunc(v, p) : v \in ComposeValues, p \in Payloads}
      \cup {MustTryFunc(v, err) : v \in ComposeValues, err \in ErrArgs}

\* result, err := Try(f), f calling Must, a Handle-built function or Try itself
TryComposeCall == TryCallOf(ComposeFuncs)

ComposeNext == TryComposeCall

ComposeSpec == Init /\ [][ComposeNext]_vars

\* handler := Handle[T](func(err error) error { panic(e2) })
HandlePanicCall == HandleCallOf(PanicHandlers)

PanicNext == HandlePanicCall \/ HandledCall \/ MustCall

PanicSpec == Init /\ [][PanicNext]_vars

----------------------------------------------------------------------------
(* Properties *)

\* the text the fmt package prints for each payload the caller panics with
ExpectedText(p) ==
    CASE p = IntPayload(123) -> "123"
      [] p = IntPayload(0)   -> "0"
      [] p = IntPayload(-7)  -> "-7"
      [] p.kind = "string"   -> p.s
      [] p.kind = "error"    -> p.e.msg

TryPanicked == op = "Try" /\ in.f.body = "panic"
TryCompleted == op = "Try" /\ in.f.body = "return"

\* C1: when f panics with a non-nil payload p (string, error, integer),
\* Try(f) returns (Zero[T](), err) with err non-nil and
\* err.Error() = "panic: " followed by the default text of p.
C1_TryPanicResult ==
    (TryPanicked /\ in.f.payload # NilPayload) =>
        /\ out.kind = "return"
        /\ out.val = Zero(in.f.type)
        /\ out.err # NilErr
        /\ out.err.msg = "panic: " \o ExpectedText(in.f.payload)

C1_Witness ==
    /\ TryPanicked
    /\ in.f.payload = IntPayload(-7)
    /\ in.f.type = "slice"
    /\ out.val.isNil
    /\ out.err.msg = "panic: -7"

\* C2: Try always returns normally, whatever f does and whatever it panics
\* with (nil included), and the returned error is non-nil exactly when f
\* panicked.
C2_TryNeverPanics ==
    op = "Try" =>
        /\ out.kind = "return"
        /\ (out.err # NilErr) <=> (in.f.body = "panic")

C2_Witness ==
    /\ TryPanicked
    /\ in.f.payload = NilPayload
    /\ out.kind = "return"
    /\ out.err # NilErr

\* C3: when f completes without panicking, Try(f) invokes f exactly once and
\* returns (r, nil) with r the value f returned, the zero value included.
C3_TryNoPanicResult ==
    TryCompleted =>
        /\ out = ReturnedPair(in.f.val, NilErr)
        /\ fCalls = 1

C3_Witness ==
    /\ TryCompleted
    /\ in.f.val = Val("string", 0, "", FALSE, FALSE, <<>>)
    /\ out.val = in.f.val
    /\ out.err = NilErr
    /\ fCalls = 1

\* C4: Must(v, nil) returns v unchanged and does not panic, for every v
\* (zero values, nil slices and nil pointers included).
C4_MustNoError ==
    (op = "Must" /\ in.err = NilErr) => out = Returned(in.v)

C4_Witness ==
    /\ op = "Must"
    /\ in.err = NilErr
    /\ in.v = Val("slice", 0, "", FALSE, TRUE, <<>>)
    /\ out.kind = "return"
    /\ out.val = in.v

\* C5: Must(v, e) with e non-nil never returns: it panics and the payload is
\* the very error e (same identity, not its text, not a copy), whatever v is.
C5_MustPanicsWithErr ==
    (op = "Must" /\ in.err # NilErr) =>
        /\ out.kind = "panic"
        /\ out.payload.kind = "error"
        /\ out.payload.e = in.err

C5_Witness ==
    /\ op = "Must"
    /\ in.err = [id |-> 2, msg |-> "original error", wraps |-> 0]
    /\ in.v = Val("int", 42, "", FALSE, FALSE, <<>>)
    /\ out.kind = "panic"
    /\ out.payload.e.id = 2

\* C6: the function returned by Handle(h), called with (v, nil), returns v
\* unchanged and never invokes h, for every handler h.
C6_HandleNoErrorSkipsHandler ==
    (op = "Handled" /\ in.err = NilErr) =>
        /\ out = Returned(in.v)
        /\ hLog = <<>>

C6_Witness ==
    /\ op = "Handled"
    /\ in.err = NilErr
    /\ in.h = ConstHandler([id |-> 3, msg |-> "handler error", wraps |-> 0])
    /\ in.v = Val("string", 0, "test", FALSE, FALSE, <<>>)
    /\ out.val = in.v
    /\ hLog = <<>>

\* the handler of the last call is callable and returns nil for the error
HandlerResolves == in.h.kind # "nil" /\ HandlerReturn(in.h, in.err) = NilErr
\* the handler of the last call is callable and returns a non-nil error
HandlerRejects == in.h.kind # "nil" /\ HandlerReturn(in.h, in.err) # NilErr

\* C7: for a non-nil error e for which the handler returns nil,
\* Handle(h)(v, e) returns v unchanged without panicking, and h was invoked
\* exactly once, with e itself.
C7_HandledErrorReturnsValue ==
    (op = "Handled" /\ in.err # NilErr /\ HandlerResolves) =>
        /\ out = Returned(in.v)
        /\ hLog = <<in.err>>

C7_Witness ==
    /\ op = "Handled"
    /\ in.h = SelectiveHandler
    /\ in.err = [id |-> 3, msg |-> "handler error", wraps |-> 0]
    /\ in.v = Val("int", 42, "", FALSE, FALSE, <<>>)
    /\ out.kind = "return"
    /\ out.val = in.v
    /\ Len(hLog) = 1

\* C8: for a non-nil error e for which the handler returns a non-nil error
\* e2, Handle(h)(v, e) never returns: it panics with payload e2, and the
\* payload is e only when the handler returned e itself.
C8_HandlerErrorIsPayload ==
    (op = "Handled" /\ in.err # NilErr /\ HandlerRejects) =>
        /\ out.kind = "panic"
        /\ out.payload = ErrPayload(HandlerReturn(in.h, in.err))
        /\ (out.payload.e = in.err) => (HandlerReturn(in.h, in.err) = in.err)

C8_Witness ==
    /\ op = "Handled"
    /\ in.h = TransformHandler([id |-> 3, msg |-> "handler error", wraps |-> 0])
    /\ in.err = [id |-> 1, msg |-> "original error", wraps |-> 0]
    /\ out.kind = "panic"
    /\ out.payload.e.id = 3

\* C9: Handle with the identity handler behaves as Must: for every v and
\* every err (nil or not), both return the same value or both panic with the
\* same payload.
C9_IdentityHandleIsMust ==
    /\ (op = "Handled" /\ in.h = IdentityHandler) => out = Must(in.v, in.err)
    /\ op = "Must" => out = Handled(Handle(IdentityHandler), in.v, in.err, Fresh).o

C9_Witness ==
    /\ op = "Handled"
    /\ in.h = IdentityHandler
    /\ in.err = [id |-> 1, msg |-> "original error", wraps |-> 0]
    /\ out.kind = "panic"
    /\ out.payload.e = in.err

\* C10: Handle with a handler that always returns nil never panics: for
\* every v and every err (nil or not), the call returns v.
C10_IgnoreHandlerNeverPanics ==
    (op = "Handled" /\ in.h = IgnoreHandler) => out = Returned(in.v)

C10_Witness ==
    /\ op = "Handled"
    /\ in.h = IgnoreHandler
    /\ in.err = [id |-> 2, msg |-> "original error", wraps |-> 0]
    /\ in.v = Val("bool", 0, "", TRUE, FALSE, <<>>)
    /\ out.kind = "return"
    /\ out.val = in.v

\* C11: when the handler given to Handle is nil, calling the constructed
\* function with a non-nil error panics; v is not returned and the error is
\* not treated as resolved.
C11_NilHandlerPanics ==
    (op = "Handled" /\ in.h = NilHandler /\ in.err # NilErr) =>
        /\ out.kind = "panic"
        /\ out.payload # NilPayload
        /\ hLog = <<>>

C11_Witness ==
    /\ op = "Handled"
    /\ in.h = NilHandler
    /\ in.err = [id |-> 1, msg |-> "original error", wraps |-> 0]
    /\ in.v = Val("string", 0, "test", FALSE, FALSE, <<>>)
    /\ out.kind = "panic"

\* C16: when f panics with a nil payload, Try(f) returns the zero value of T
\* and a non-nil error whose message is exactly
\* "panic: panic called with nil argument".
C16_TryNilPanicMessage ==
    (TryPanicked /\ in.f.payload = NilPayload) =>
        /\ out.kind = "return"
        /\ out.val = Zero(in.f.type)
        /\ out.err # NilErr
        /\ out.err.msg = "panic: panic called with nil argument"

C16_Witness ==
    /\ TryPanicked
    /\ in.f.payload = NilPayload
    /\ in.f.type = "slice"
    /\ out.val = Val("slice", 0, "", FALSE, TRUE, <<>>)
    /\ out.err.msg = "panic: panic called with nil argument"

\* what Try(f) yields when it is the first call the program ever makes
FirstCall == Effects(0, <<>>, FirstFreeId)
\* some earlier Try call of this run recovered a panic
EarlierPanicRecovered == nextId > FirstFreeId + (IF out.err # NilErr THEN 1 ELSE 0)

\* C17: Try keeps no state between calls: in any sequence of calls the
\* result of a call (value, presence of an error, error message) is the one
\* its own f gives in a program that made no earlier call, whether or not
\* earlier calls recovered a panic.
C17_TryStateless ==
    op = "Try" =>
        /\ out.kind = Try(in.f, FirstCall).o.kind
        /\ out.val = Try(in.f, FirstCall).o.val
        /\ out.err.msg = Try(in.f, FirstCall).o.err.msg
        /\ (out.err = NilErr) <=> (Try(in.f, FirstCall).o.err = NilErr)
        /\ TryCompleted => out = ReturnedPair(in.f.val, NilErr)

C17_Witness ==
    /\ TryCompleted
    /\ EarlierPanicRecovered
    /\ in.f.val = Val("int", 42, "", FALSE, FALSE, <<>>)
    /\ out = ReturnedPair(in.f.val, NilErr)

\* C20: Try does not undo what f did before panicking: after Try returns
\* (zero value, error) for an f that incremented the captured counter and
\* then panicked, the counter holds the incremented value.
C20_TryKeepsSideEffects ==
    [][(op' = "Try" /\ in'.f.body = "incPanic" /\ out'.err # NilErr) =>
          /\ counter' = counter + 1
          /\ out'.val = Zero(in'.f.type)
          /\ fCalls' = 1]_vars

C20_Witness ==
    /\ op = "Try"
    /\ in.f.body = "incPanic"
    /\ in.f.type = "string"
    /\ out.val = Val("string", 0, "", FALSE, FALSE, <<>>)
    /\ out.err.msg = "panic: panic after increment"
    /\ counter = 1

PtrTargets == {ptrs[k] : k \in 1..Len(ptrs)}

\* C12: Ptr(v) returns a non-nil pointer whose target initially equals v,
\* for every v (zero values, nil slices and nil pointers included).
C12_PtrTargetEqualsValue ==
    op = "Ptr" =>
        /\ out.kind = "return"
        /\ out.val.type = "ptr"
        /\ ~out.val.isNil
        /\ out.val.i \in 1..Len(mem)
        /\ mem[out.val.i] = in.v
        /\ ptrs[Len(ptrs)] = out.val.i

C12_Witness ==
    /\ op = "Ptr"
    /\ in.v = Val("int", 42, "", FALSE, FALSE, <<>>)
    /\ ~out.val.isNil
    /\ mem[out.val.i] = in.v
    /\ \E k \in 1..Len(ptrs) : mem[ptrs[k]] = Zero("slice")

DistinctPtrs ==
    /\ \A j, k \in 1..Len(ptrs) : j # k => ptrs[j] # ptrs[k]
    /\ PtrTargets \cap locals = {}

\* C14: every call to Ptr yields fresh storage: the returned pointers are
\* pairwise distinct and distinct from the address of every caller
\* variable, also when they point to equal values, and an assignment
\* through one returned pointer leaves the target of every other one as it
\* was.
C14_PtrFreshStorage ==
    /\ []DistinctPtrs
    /\ [][op' = "WritePtr" =>
             \A k \in 1..Len(ptrs) :
                 ptrs[k] # in'.v.i => Contents(mem', ptrs[k]) = Contents(mem, ptrs[k])]_vars

\* x := 42; p1 := Ptr(x); p2 := Ptr(x); *p2 = 100 has run: *p1 is still 42
C14_Witness ==
    /\ op = "WritePtr"
    /\ locals = {1}
    /\ ptrs = <<2, 3>>
    /\ in.v.i = 3
    /\ mem[1] = Val("int", 42, "", FALSE, FALSE, <<>>)
    /\ mem[2] = Val("int", 42, "", FALSE, FALSE, <<>>)
    /\ mem[3] = Val("int", 100, "", FALSE, FALSE, <<>>)

\* C15: Zero[T]() equals the value of a variable declared `var v T` without
\* initialisation: 0 for numbers, "" for strings, false for bool, nil for
\* slices, maps and pointers, a struct with every field zero.
C15_ZeroMatchesDeclaration ==
    /\ op = "Zero" =>
          /\ out.kind = "return"
          /\ out.val = mem[Len(mem)]
          /\ out.val.i = 0 /\ out.val.s = "" /\ out.val.b = FALSE
          /\ out.val.elems = <<>>
          /\ out.val.isNil <=> out.val.type \in {"slice", "map", "ptr"}
    /\ op = "Clear" => mem[in.v.i] = VarDecl(mem[in.v.i].type)

C15_Witness ==
    /\ op = "Zero"
    /\ out.val.type = "slice"
    /\ out.val.isNil
    /\ mem[Len(mem)] = out.val
    /\ \E a \in locals : mem[a].type = "struct"

\* the text recovered for a payload, the nil payload included
OwnPanicText(p) ==
    IF p = NilPayload THEN "panic called with nil argument" ELSE ExpectedText(p)

\* C18: when several Try calls run in different goroutines, a panic
\* recovered by one call affects that call only: under every interleaving a
\* call whose f does not panic returns (f(), nil), and a call whose f
\* panics returns its own zero value and the error of its own payload.
C18_ConcurrentTryIsolated ==
    \A g \in 1..Len(gs) :
        /\ gs[g].pc # "crashed"
        /\ gs[g].pc = "done" =>
              IF gs[g].f.body = "return"
              THEN /\ gs[g].retval = gs[g].f.val
                   /\ gs[g].err = NilErr
              ELSE /\ gs[g].retval = Zero(gs[g].f.type)
                   /\ gs[g].err # NilErr
                   /\ gs[g].err.msg = "panic: " \o OwnPanicText(gs[g].f.payload)

\* goroutine 1 returned (42, nil) although its deferred function ran while
\* goroutine 2's panic was in flight; goroutine 2 got its own error
C18_Witness ==
    /\ Len(gs) = 2
    /\ gs[1].pc = "done" /\ gs[1].overlap
    /\ gs[1].retval = Val("int", 42, "", FALSE, FALSE, <<>>) /\ gs[1].err = NilErr
    /\ gs[2].pc = "done"
    /\ gs[2].f.payload = StrPayload("something went wrong")
    /\ gs[2].err.msg = "panic: something went wrong"

\* what a call must give when only its own handler h and its own (v, err)
\* count
OwnOutcome(h, v, err) ==
    IF err = NilErr THEN Returned(v)
    ELSE IF h = NilHandler THEN Panicked(NilDeref)
    ELSE IF h = IgnoreHandler THEN Returned(v)
    ELSE IF h = IdentityHandler THEN Panicked(ErrPayload(err))
    ELSE Panicked(ErrPayload(h.e))

\* C19: functions built by Handle share no state: in any sequence of
\* constructions and calls, the outcome of a call (return v, or panic with
\* a payload) is fixed by the handler the called function was built with
\* and by that call's (v, err); other constructions and earlier calls do
\* not matter.
C19_HandleNoSharedState ==
    op = "Handled" =>
        /\ out = OwnOutcome(in.h, in.v, in.err)
        /\ hLog = IF in.err # NilErr /\ in.h # NilHandler THEN <<in.err>> ELSE <<>>

\* handler1 (errors ignored) is called with an error after handler2
\* (always fails) was built, and returns v
C19_Witness ==
    /\ Len(closures) = 2
    /\ closures[1].h = IgnoreHandler
    /\ closures[2].h = ConstHandler([id |-> 3, msg |-> "handler error", wraps |-> 0])
    /\ op = "Handled"
    /\ in.h = IgnoreHandler
    /\ in.err = [id |-> 1, msg |-> "original error", wraps |-> 0]
    /\ out = Returned(Val("int", 100, "", FALSE, FALSE, <<>>))

\* C21 as stated: when the handler returns nil for a non-nil error, the value
\* the caller receives from Handle(h)(v, e) is the zero value of T.
C21_HandledResultIsZero ==
    (op = "Handled" /\ in.err # NilErr /\ HandlerResolves) =>
        /\ out.kind = "return"
        /\ out.val = Zero(in.v.type)

\* C21: when the handler returns nil for a non-nil error, the value the
\* caller receives from Handle(h)(v, e) is the argument v itself; it is the
\* zero value of T exactly when v is the zero value of T.
C21_HandledResultIsArgument ==
    (op = "Handled" /\ in.err # NilErr /\ HandlerResolves) =>
        /\ out.kind = "return"
        /\ out.val = in.v
        /\ (out.val = Zero(in.v.type)) <=> (in.v = Zero(in.v.type))

C21_Witness ==
    /\ op = "Handled"
    /\ in.h = IgnoreHandler
    /\ in.err = [id |-> 1, msg |-> "original error", wraps |-> 0]
    /\ in.v = Val("string", 0, "test", FALSE, FALSE, <<>>)
    /\ out = Returned(Val("string", 0, "test", FALSE, FALSE, <<>>))
    /\ out.val # Zero("string")

\* C22: a nil handler is only called on the error path: Handle(nil) returns a
\* function without panicking, that function called with (v, nil) returns v
\* for every v, and it panics exactly when it is called with a non-nil error.
C22_NilHandlerOnlyOnErrorPath ==
    /\ (op = "Handle" /\ in.h = NilHandler) =>
            /\ out.kind = "return"
            /\ handled = Handle(NilHandler)
    /\ (op = "Handled" /\ in.h = NilHandler) =>
            /\ (out.kind = "panic") <=> (in.err # NilErr)
            /\ (in.err = NilErr) => (out = Returned(in.v) /\ hLog = <<>>)

C22_Witness ==
    /\ op = "Handled"
    /\ handled = Handle(NilHandler)
    /\ in.h = NilHandler
    /\ in.err = NilErr
    /\ in.v = Val("int", 42, "", FALSE, FALSE, <<>>)
    /\ out = Returned(Val("int", 42, "", FALSE, FALSE, <<>>))

\* the variables and pointer targets whose slice or map refers to the
\* elements stored at address e
Holders(m, e) ==
    {c \in locals \cup PtrTargets : m[c].type \in RefTypes /\ ~m[c].isNil /\ m[c].i = e}

\* C23: Ptr copies shallowly.  For a non-nil slice or map v, *Ptr(v) refers
\* to the same elements as v; an element write through a variable or through
\* a returned pointer is visible through every variable and pointer target
\* that refers to those elements and changes nothing else; an assignment to
\* the slice or map variable itself, or through the pointer, changes that
\* one variable or target only.
C23_PtrCopiesShallowly ==
    /\ []((op = "Ptr" /\ in.v.type \in RefTypes /\ ~in.v.isNil) =>
            /\ mem[out.val.i] = in.v
            /\ out.val.i \in Holders(mem, in.v.i))
    /\ [][/\ op' = "WriteElem" =>
                \A c \in locals \cup PtrTargets :
                    IF c \in Holders(mem, mem[in'.v.i].i)
                    THEN /\ Contents(mem', c).val = Contents(mem, c).val
                         /\ Contents(mem', c).elems =
                                [Contents(mem, c).elems EXCEPT ![1] = 999]
                    ELSE Contents(mem', c) = Contents(mem, c)
          /\ op' \in {"WriteVar", "WritePtr"} =>
                \A c \in (locals \cup PtrTargets) \ {in'.v.i} :
                    Contents(mem', c) = Contents(mem, c)]_vars

\* x := []int{1, 2}; p := Ptr(x); (*p)[0] = 999 has run: x[0] is 999
C23_Witness ==
    /\ op = "WriteElem"
    /\ locals = {2}
    /\ ptrs = <<3>>
    /\ in.v.i = 3
    /\ mem[2] = SliceOf(1)
    /\ mem[3] = SliceOf(1)
    /\ Contents(mem, 2).elems = <<999, 2>>

\* C24: Try(func() T { return Must(v, err) }) returns (v, nil) when err is
\* nil and (Zero[T](), e2) with e2.Error() = "panic: " + err.Error() when err
\* is non-nil; the returned error is nil exactly when err is nil.
C24_TryOfMust ==
    (op = "Try" /\ in.f.body = "must") =>
        /\ out.kind = "return"
        /\ (out.err = NilErr) <=> (in.f.err = NilErr)
        /\ IF in.f.err = NilErr
           THEN out = ReturnedPair(in.f.val, NilErr)
           ELSE /\ out.val = Zero(in.f.type)
                /\ out.err.msg = "panic: " \o in.f.err.msg

C24_Witness ==
    /\ op = "Try"
    /\ in.f = MustFunc(Val("int", 42, "", FALSE, FALSE, <<>>),
                       [id |-> 3, msg |-> "handler error", wraps |-> 0])
    /\ out.val = Val("int", 0, "", FALSE, FALSE, <<>>)
    /\ out.err.msg = "panic: handler error"
    /\ fCalls = 1

\* C25: when a Handle-built function runs inside Try with a non-nil error e
\* and a handler h that returns, what Try returns follows h's result, not e:
\* (v, nil) if h(e) is nil, and (Zero[T](), err) with
\* err.Error() = "panic: " + e2.Error() if h(e) = e2 is non-nil, also when
\* e2 differs from e.
C25_TryOfHandled ==
    (op = "Try" /\ in.f.body = "handled" /\ in.f.err # NilErr
       /\ in.f.h.kind \notin {"nil", "panics"}) =>
        LET e2 == HandlerReturn(in.f.h, in.f.err)
        IN  /\ out.kind = "return"
            /\ hLog = <<in.f.err>>
            /\ IF e2 = NilErr
               THEN out = ReturnedPair(in.f.val, NilErr)
               ELSE /\ out.val = Zero(in.f.type)
                    /\ out.err # NilErr
                    /\ out.err.msg = "panic: " \o e2.msg

\* the handler turns "original error" into "handler error"; Try reports the latter
C25_Witness ==
    /\ op = "Try"
    /\ in.f = HandledFunc(Val("int", 42, "", FALSE, FALSE, <<>>),
                          [id |-> 1, msg |-> "original error", wraps |-> 0],
                          TransformHandler([id |-> 3, msg |-> "handler error", wraps |-> 0]))
    /\ out.val = Val("int", 0, "", FALSE, FALSE, <<>>)
    /\ out.err.msg = "panic: handler error"

\* C26: the error Try returns is always a newly created error value: its
\* identity is one allocated by the call, never the identity of an error
\* the caller made; when f panics with an error value p, the returned error
\* is not p and does not wrap p, it only carries p's text after "panic: ".
C26_TryErrorIsNew ==
    (op = "Try" /\ out.err # NilErr) =>
        /\ out.err.id = nextId - 1
        /\ out.err.id \notin {e.id : e \in CallerErrs}
        /\ out.err.wraps = 0
        /\ in.f.payload.kind = "error" =>
                /\ out.err # in.f.payload.e
                /\ out.err.id # in.f.payload.e.id
                /\ out.err.wraps # in.f.payload.e.id
                /\ out.err.msg = "panic: " \o in.f.payload.e.msg

C26_Witness ==
    /\ op = "Try"
    /\ in.f.body = "panic"
    /\ in.f.payload = ErrPayload([id |-> 2, msg |-> "original error", wraps |-> 0])
    /\ out.err = [id |-> FirstFreeId, msg |-> "panic: original error", wraps |-> 0]

\* C27: Try called with a nil function value does not panic out to its
\* caller: the nil call inside Try is recovered, and Try(nil) returns
\* (Zero[T](), err) with a non-nil err whose message starts with "panic: ".
C27_TryNilFunc ==
    (op = "Try" /\ in.f.body = "nil") =>
        /\ out.kind = "return"
        /\ out.val = Zero(in.f.type)
        /\ out.err # NilErr
        /\ SubSeq(out.err.msg, 1, 7) = "panic: "
        /\ out.err.msg = "panic: runtime error: " \o NilDeref.s
        /\ fCalls = 0

C27_Witness ==
    /\ op = "Try"
    /\ in.f = NilFunc("string")
    /\ out.kind = "return"
    /\ out.val = Val("string", 0, "", FALSE, FALSE, <<>>)
    /\ out.err.id = FirstFreeId

\* C28: with nested Try calls a panic is consumed by the innermost enclosing
\* Try only: when f's body calls Try(g), g panics and f then returns v, the
\* inner Try returns (zero, error) and the outer Try(f) returns (v, nil).
C28_InnermostTryConsumes ==
    (op = "Try" /\ in.f.body = "tryPanic") =>
        /\ inner.kind = "return"
        /\ inner.val = Zero(in.f.type)
        /\ inner.err # NilErr
        /\ inner.err.msg = IF in.f.payload = NilPayload
                           THEN "panic: panic called with nil argument"
                           ELSE "panic: " \o ExpectedText(in.f.payload)
        /\ out = ReturnedPair(in.f.val, NilErr)
        /\ fCalls = 2

C28_Witness ==
    /\ op = "Try"
    /\ in.f = TryPanicFunc(Val("int", 42, "", FALSE, FALSE, <<>>),
                           StrPayload("something went wrong"))
    /\ inner.err.msg = "panic: something went wrong"
    /\ out = ReturnedPair(Val("int", 42, "", FALSE, FALSE, <<>>), NilErr)

\* C29: Must and the functions built by Handle never recover a panic: a
\* panic raised inside the handler itself propagates out of the constructed
\* function with the handler's own payload, after the handler was entered
\* once, and v is not returned; the panic Must raises leaves Must likewise.
C29_HandlerPanicPropagates ==
    /\ (op = "Handled" /\ in.h.kind = "panics" /\ in.err # NilErr) =>
            /\ out = Panicked(ErrPayload(in.h.e))
            /\ hLog = <<in.err>>
    /\ (op = "Must" /\ in.err # NilErr) => out.kind = "panic"

\* the handler panics with "handler error" while handling "original error"
C29_Witness ==
    /\ op = "Handled"
    /\ in.h = PanicHandler([id |-> 3, msg |-> "handler error", wraps |-> 0])
    /\ in.err = [id |-> 1, msg |-> "original error", wraps |-> 0]
    /\ in.v = Val("int", 42, "", FALSE, FALSE, <<>>)
    /\ out.kind = "panic"
    /\ out.payload.e.id = 3

\* C30: each level of Try around Must adds exactly one "panic: " prefix: for
\* a non-nil error e, Try(func() T { return Must(Try(func() T { return
\* Must(v, e) })) }) returns an error whose message is
\* "panic: panic: " + e.Error(), the inner Try having returned one with
\* "panic: " + e.Error(), and the value is the zero value of T at both levels.
C30_OnePrefixPerLevel ==
    (op = "Try" /\ in.f.body = "mustTry" /\ in.f.err # NilErr) =>
        /\ inner.kind = "return"
        /\ inner.val = Zero(in.f.type)
        /\ inner.err.msg = "panic: " \o in.f.err.msg
        /\ out.kind = "return"
        /\ out.val = Zero(in.f.type)
        /\ out.err.msg = "panic: panic: " \o in.f.err.msg
        /\ out.err.id # inner.err.id

C30_Witness ==
    /\ op = "Try"
    /\ in.f = MustTryFunc(Val("int", 42, "", FALSE, FALSE, <<>>),
                          [id |-> 1, msg |-> "original error", wraps |-> 0])
    /\ inner.err.msg = "panic: original error"
    /\ out.err.msg = "panic: panic: original error"
    /\ out.val = Val("int", 0, "", FALSE, FALSE, <<>>)

====
